---- MODULE Spec2Model ----
(***************************************************************************)
(* GeneralRouter: the CircularBuffer (src/src/circularbuffer.h), the FIX   *)
(* parser Message::parseFixMessage (src/src/message.h), the worker's       *)
(* event handling with its logon handler (src/src/worker.h), the acceptor  *)
(* with its workers and its constructor (src/src/tcpserver.h) and the      *)
(* TCPClient with its threads (src/src/tcpclient.cpp).                     *)
(*                                                                         *)
(* Bytes are their ASCII codes.  A std::string_view is a slice             *)
(* [start, len] of the ring's storage; it is resolved against the storage  *)
(* at the moment it is read, as a pointer is.                              *)
(***************************************************************************)
EXTENDS Integers, Sequences, FiniteSets, TLC

VARIABLES
    buffer,       \* the inbound CircularBuffer: buffer_, capacity_, head_, tail_, full_
    beyond,       \* the byte that lies just past the end of buffer_'s storage
    message,      \* the connection's Message
    writeBuffer,  \* Connection::writeBuffer, the outbound bytes
    result,       \* what the last parseFixMessage call returned
    pending,      \* bytes of the input stream not yet delivered
    stream,       \* the whole input stream, as a sequence of messages
    nFinished,    \* how many times parseFixMessage returned FINISHED
    parsed,       \* the field values of the messages that FINISHED, in order
    lastEcho,     \* what the last handler call found pending and what it was given
    mode,         \* how the input is delivered: "chunks" or "blob"
    fresh,        \* the ring changed since the last call that got nowhere
    chunks,       \* how many chunks have been delivered
    sock,         \* bytes the kernel holds for the connection's fd, unread
    peerClosed,   \* the peer has closed its side: read returns 0 once sock is empty
    ready,        \* an EPOLLIN event for the fd is pending in the worker's epoll set
    pc,           \* where the worker is: "epoll_wait" or in the "EPOLLIN" loop
    isOpen,       \* the fd is open and has its entry in connections
    errno,        \* the worker thread's errno
    armedOut,     \* EPOLLOUT is in the fd's event mask
    readyOut,     \* an EPOLLOUT event for the fd is pending in the worker's epoll set
    evOut,        \* the event the worker is handling carries EPOLLOUT
    conns,        \* how many connections the worker has taken under this fd number
    view,         \* what the last getReadView call returned
    call,         \* the last call made on the CircularBuffer directly, and its outcome
    accepted,     \* the bytes the write calls of a FIFO run have accepted, in order
    taken,        \* the bytes a FIFO run's read views exposed and consume removed, in order
    nWorkers,     \* workers.size() of the TcpServer
    shutdownFlag, \* TcpServer::shutdownFlag
    roundRobinIndex, \* TcpServer::roundRobinIndex, an int
    turn,         \* the number of connections accepted so far, modulo nWorkers
    handed,       \* what the acceptor did with each accepted connection, in order
    pipe,         \* per worker, the fds written to its pipe and not yet read
    pipeEvent,    \* per worker, an EPOLLIN event for pipeReadFd is pending
    connections,  \* per worker, the fds that have an entry in its connections map
    registered,   \* per worker, the connection fds in its epoll set
    armed,        \* per worker, the fds whose event mask has EPOLLOUT
    openFds,      \* the connection fds that are open in the process
    running,      \* per worker, its thread is in run()
    workers,      \* TcpServer::workers: the vector's size, capacity and storage block
    workerThreads, \* per started thread, the block its WorkerThread lies in; 0 before workers[i]
    write_queue_, \* TCPClient::write_queue_, the messages waiting to be written
    write_mutex_, \* TCPClient::write_mutex_: "free" or the thread that owns it
    should_stop_, \* TCPClient::should_stop_
    connected_,   \* TCPClient::connected_ with sock_fd_ >= 0
    sendPc,       \* where the client's send thread is
    recvPc,       \* where the client's receive thread is
    mainPc,       \* where the thread that uses the client is
    wire,         \* the bytes the client's write calls have handed to the socket
    queued        \* the messages asyncSend has queued, in order

vars == <<buffer, beyond, message, writeBuffer, result, pending, stream,
          nFinished, parsed, lastEcho, mode, fresh, chunks, sock, peerClosed,
          ready, pc, isOpen, errno, armedOut, readyOut, evOut, conns,
          view, call, accepted, taken, nWorkers, shutdownFlag, roundRobinIndex,
          turn, handed,
          pipe, pipeEvent, connections, registered, armed, openFds, running,
          workers, workerThreads, write_queue_, write_mutex_, should_stop_,
          connected_, sendPc, recvPc, mainPc, wire, queued>>

----------------------------------------------------------------------------
(* Bounds of the model *)

\* largest capacity of a CircularBuffer in the buffer-only specification
MaxCap == 3
\* a FIFO run accepts bytes until MaxAccepted of them have been accepted
MaxAccepted == 4
\* the user of a TCPClient queues at most MaxSends messages
MaxSends == 2
\* the parser's ring holds the whole input, or the input and ParseSlack more
ParseSlack == 2
\* the parser's ring starts empty with head_ = tail_ anywhere in 0..MaxOffset
MaxOffset == 1
\* a message is delivered in at most MaxChunks chunks of the sender's choice
MaxChunks == 2
\* the running checksum up to which a call that gets nowhere is repeated
ChecksumCap == 2000
\* the capacity of a connection's inbound ring in the worker; it stands for
\* BUFSIZE (1024 * 1024), scaled to the model's short messages
WorkerCap == 96
\* the stream reaches the worker's socket in at most MaxArrivals pieces
MaxArrivals == 2
\* a worker takes at most MaxConns connections under one fd number
MaxConns == 2

(* Bytes *)
SOH == 1
EQ == 61
Zero == 48
Nine == 57

Min(a, b) == IF a < b THEN a ELSE b

----------------------------------------------------------------------------
(* CircularBuffer, src/src/circularbuffer.h *)

\* CircularBuffer(capacity): head_(0), tail_(0), full_(false); the storage
\* comes from new char[capacity] and holds whatever was there: fill.
CircularBuffer(capacity, fill) ==
    [buffer_ |-> [i \in 0..(capacity - 1) |-> fill], capacity_ |-> capacity,
     head_ |-> 0, tail_ |-> 0, full_ |-> FALSE]

dataSize_wrapSwapped(b) ==
    IF b.full_ THEN b.capacity_
    ELSE IF b.tail_ >= b.head_ THEN b.tail_ - b.head_
         ELSE b.head_ - b.tail_

dataSize(b) ==
    IF b.full_ THEN b.capacity_
    ELSE IF b.tail_ >= b.head_ THEN b.tail_ - b.head_
         ELSE b.capacity_ - b.head_ + b.tail_

availableSpace(b) ==
    IF b.full_ THEN 0
    ELSE IF b.tail_ >= b.head_ THEN b.capacity_ - (b.tail_ - b.head_)
         ELSE b.head_ - b.tail_

empty(b) == b.head_ = b.tail_

\* std::copy(data, data + length, buffer_ + tail_)
CopyIn(b, data, length) ==
    [i \in 0..(b.capacity_ - 1) |->
        IF i >= b.tail_ /\ i < b.tail_ + length
        THEN data[i - b.tail_ + 1] ELSE b.buffer_[i]]

writeFromBytes_noModulo(b, data, length) ==
    IF availableSpace(b) <= 0
    THEN [ring |-> b, ret |-> -1]
    ELSE LET writeSize == Min(availableSpace(b), b.capacity_ - b.tail_)
             n == IF writeSize < length THEN writeSize ELSE length
             t == b.tail_ + n
         IN [ring |-> [b EXCEPT !.buffer_ = CopyIn(b, data, n),
                                !.tail_ = t,
                                !.full_ = (t = b.head_)],
             ret |-> n]

\* writeFromBytes(data, length): the count written, or -1 when there is no room
writeFromBytes(b, data, length) ==
    IF availableSpace(b) <= 0
    THEN [ring |-> b, ret |-> -1]
    ELSE LET writeSize == Min(availableSpace(b), b.capacity_ - b.tail_)
             n == IF writeSize < length THEN writeSize ELSE length
             t == (b.tail_ + n) % b.capacity_
         IN [ring |-> [b EXCEPT !.buffer_ = CopyIn(b, data, n),
                                !.tail_ = t,
                                !.full_ = (t = b.head_)],
             ret |-> n]

writeFromString(b, data) == writeFromBytes(b, data, Len(data))

writeFromByte(b, data) ==
    IF availableSpace(b) <= 0
    THEN [ring |-> b, ret |-> -1]
    ELSE LET t == (b.tail_ + 1) % b.capacity_
         IN [ring |-> [b EXCEPT !.buffer_ = [b.buffer_ EXCEPT ![b.tail_] = data],
                                !.tail_ = t,
                                !.full_ = (t = b.head_)],
             ret |-> 1]

\* writeFromSocket(socketFd): one read into the contiguous writable run.
\* read gives what the socket holds, up to writeSize; 0 once the peer has
\* closed; -1 with EAGAIN when there is nothing yet.  A ring without room
\* returns -1 without a read and leaves errno as it was.  reads and req are
\* the number of read calls made and the length the read asked for.
writeFromSocket_wholeSpace(b, sk, closed, eno) ==
    IF availableSpace(b) = 0
    THEN [ring |-> b, ret |-> -1, sock |-> sk, errno |-> eno,
          reads |-> 0, req |-> 0]
    ELSE LET writeSize == availableSpace(b)
             n == Min(writeSize, Len(sk))
             t == (b.tail_ + n) % b.capacity_
         IN IF n > 0
            THEN [ring |-> [b EXCEPT !.buffer_ = CopyIn(b, sk, n), !.tail_ = t,
                                     !.full_ = (t = b.head_)],
                  ret |-> n, sock |-> SubSeq(sk, n + 1, Len(sk)), errno |-> eno,
                  reads |-> 1, req |-> writeSize]
            ELSE IF closed
            THEN [ring |-> b, ret |-> 0, sock |-> sk, errno |-> eno,
                  reads |-> 1, req |-> writeSize]
            ELSE [ring |-> b, ret |-> -1, sock |-> sk, errno |-> "EAGAIN",
                  reads |-> 1, req |-> writeSize]

writeFromSocket(b, sk, closed, eno) ==
    IF availableSpace(b) = 0
    THEN [ring |-> b, ret |-> -1, sock |-> sk, errno |-> eno,
          reads |-> 0, req |-> 0]
    ELSE LET writeSize == Min(availableSpace(b), b.capacity_ - b.tail_)
             n == Min(writeSize, Len(sk))
             t == (b.tail_ + n) % b.capacity_
         IN IF n > 0
            THEN [ring |-> [b EXCEPT !.buffer_ = CopyIn(b, sk, n), !.tail_ = t,
                                     !.full_ = (t = b.head_)],
                  ret |-> n, sock |-> SubSeq(sk, n + 1, Len(sk)), errno |-> eno,
                  reads |-> 1, req |-> writeSize]
            ELSE IF closed
            THEN [ring |-> b, ret |-> 0, sock |-> sk, errno |-> eno,
                  reads |-> 1, req |-> writeSize]
            ELSE [ring |-> b, ret |-> -1, sock |-> sk, errno |-> "EAGAIN",
                  reads |-> 1, req |-> writeSize]

\* the bytes write(socketFd, buffer_ + head_, readSize) is handed
Offered(b, readSize) == [i \in 1..readSize |-> b.buffer_[b.head_ + i - 1]]

readToSocket_consumesOffer(b, room) ==
    IF dataSize(b) <= 0
    THEN [ring |-> b, ret |-> -1, writes |-> 0, offered |-> <<>>]
    ELSE LET readSize == Min(dataSize(b), b.capacity_ - b.head_)
             bytesWritten == IF room < 0 THEN -1 ELSE Min(room, readSize)
         IN [ring |-> IF bytesWritten > 0
                      THEN [b EXCEPT !.head_ = (b.head_ + readSize)
                                                   % b.capacity_,
                                     !.full_ = FALSE]
                      ELSE b,
             ret |-> bytesWritten, writes |-> 1,
             offered |-> Offered(b, readSize)]

\* readToSocket(socketFd): one write of the contiguous readable run.  The
\* socket takes up to room bytes of it; room < 0 is a write that fails.
readToSocket(b, room) ==
    IF dataSize(b) <= 0
    THEN [ring |-> b, ret |-> -1, writes |-> 0, offered |-> <<>>]
    ELSE LET readSize == Min(dataSize(b), b.capacity_ - b.head_)
             bytesWritten == IF room < 0 THEN -1 ELSE Min(room, readSize)
         IN [ring |-> IF bytesWritten > 0
                      THEN [b EXCEPT !.head_ = (b.head_ + bytesWritten)
                                                   % b.capacity_,
                                     !.full_ = FALSE]
                      ELSE b,
             ret |-> bytesWritten, writes |-> 1,
             offered |-> Offered(b, readSize)]

\* getReadView(start, data, length): data is buffer_ + start
getReadView(b) ==
    IF dataSize(b) = 0
    THEN [ok |-> FALSE, start |-> 0, length |-> 0]
    ELSE [ok |-> TRUE, start |-> b.head_,
          length |-> IF b.tail_ >= b.head_ THEN b.tail_ - b.head_
                     ELSE b.capacity_ - b.head_]

consume(b, bytes) ==
    LET available == dataSize(b)
        n == IF bytes > available THEN available ELSE bytes
    IN [b EXCEPT !.head_ = (b.head_ + n) % b.capacity_, !.full_ = FALSE]

----------------------------------------------------------------------------
(* Message, src/src/message.h *)

\* 2^31 - 1, the largest int std::from_chars can return
IntMax == 2147483647
Minus == 45

\* the byte at index i of the storage; index capacity_ is one past the end
ByteAt(b, bey, i) == IF i < b.capacity_ THEN b.buffer_[i] ELSE bey

\* a default-constructed std::string_view
NoView == [start |-> 0, len |-> 0]

\* the characters a string_view refers to, read from the storage now
Str(b, bey, sv) == [i \in 1..sv.len |-> ByteAt(b, bey, sv.start + i - 1)]

IsDigit(c) == c >= Zero /\ c <= Nine

RECURSIVE Digits(_, _, _, _)
\* the digit loop of std::from_chars: acc is the magnitude so far, n the
\* digits taken, over whether the value left the range of int
Digits(s, i, acc, st) ==
    IF i > Len(s) \/ ~IsDigit(s[i])
    THEN [acc |-> acc, n |-> st.n, over |-> st.over]
    ELSE LET d == s[i] - Zero
             o == st.over \/ acc > (st.lim - d) \div 10
         IN Digits(s, i + 1, IF o THEN 0 ELSE acc * 10 + d,
                   [n |-> st.n + 1, over |-> o, lim |-> st.lim])

\* std::from_chars(first, last, int&): an optional '-', then decimal digits up
\* to the first other character
from_chars(s) ==
    LET neg == Len(s) > 0 /\ s[1] = Minus
        r == Digits(s, IF neg THEN 2 ELSE 1, 0,
                    [n |-> 0, over |-> FALSE,
                     lim |-> IF neg THEN IntMax + 1 ELSE IntMax])
    IN IF r.n = 0 THEN [ec |-> "invalid_argument", value |-> 0]
       ELSE IF r.over THEN [ec |-> "result_out_of_range", value |-> 0]
       ELSE [ec |-> "ok", value |-> IF neg THEN 0 - r.acc ELSE r.acc]

RECURSIVE SumBytes(_)
\* the sum of the bytes of s, taken half by half
SumBytes(s) ==
    IF Len(s) = 0 THEN 0
    ELSE IF Len(s) = 1 THEN s[1]
    ELSE LET h == Len(s) \div 2
         IN SumBytes(SubSeq(s, 1, h)) + SumBytes(SubSeq(s, h + 1, Len(s)))

\* Message(): _checksum(0), finished = false, every view empty
NewMessage ==
    [beginString |-> NoView, bodyLength |-> NoView, checkSum |-> NoView,
     msgType |-> NoView, senderCompID |-> NoView, targetCompID |-> NoView,
     clOrdID |-> NoView, seqNumber |-> NoView, otherFields |-> <<>>,
     finished |-> FALSE, _checksum |-> 0]

\* Message::reset()
reset(m) == NewMessage

\* setMessageField(message, tag, taglength, value, valuelength)
setMessageField(m, b, bey, tag, value) ==
    LET r == from_chars(Str(b, bey, tag))
    IN IF r.ec # "ok" THEN m
       ELSE CASE r.value = 8 -> [m EXCEPT !.beginString = value]
              [] r.value = 9 -> [m EXCEPT !.bodyLength = value]
              [] r.value = 10 ->
                    [m EXCEPT !.checkSum = value,
                              !._checksum = @ - (49 + 48 + EQ + SOH)
                                              - SumBytes(Str(b, bey, value)),
                              !.finished = TRUE]
              [] r.value = 35 -> [m EXCEPT !.msgType = value]
              [] r.value = 49 -> [m EXCEPT !.senderCompID = value]
              [] r.value = 56 -> [m EXCEPT !.targetCompID = value]
              [] r.value = 11 -> [m EXCEPT !.clOrdID = value]
              [] r.value = 34 -> [m EXCEPT !.seqNumber = value]
              [] OTHER -> [m EXCEPT !.otherFields = Append(@, <<tag, value>>)]

RECURSIVE ScanTag_unbounded(_, _, _, _, _)
ScanTag_unbounded(b, bey, v, pos, sum) ==
    LET d == ByteAt(b, bey, v.start + pos)
    IN IF d # EQ
       THEN IF ~IsDigit(d) THEN [err |-> TRUE, pos |-> pos, sum |-> sum]
            ELSE ScanTag_unbounded(b, bey, v, pos + 1, sum + d)
       ELSE [err |-> FALSE, pos |-> pos, sum |-> sum]

RECURSIVE ScanTag(_, _, _, _, _)
\* while ('=' != data[pos] && pos < length): the tag's digits
ScanTag(b, bey, v, pos, sum) ==
    LET d == ByteAt(b, bey, v.start + pos)
    IN IF d # EQ /\ pos < v.length
       THEN IF ~IsDigit(d) THEN [err |-> TRUE, pos |-> pos, sum |-> sum]
            ELSE ScanTag(b, bey, v, pos + 1, sum + d)
       ELSE [err |-> FALSE, pos |-> pos, sum |-> sum]

RECURSIVE ScanValue(_, _, _, _, _)
\* while (SOH != data[pos] && pos < length): the value's bytes
ScanValue(b, bey, v, pos, sum) ==
    LET d == ByteAt(b, bey, v.start + pos)
    IN IF d # SOH /\ pos < v.length
       THEN ScanValue(b, bey, v, pos + 1, sum + d)
       ELSE [pos |-> pos, sum |-> sum]

\* the check made once message.finished is set
CheckChecksum(b, bey, m) ==
    LET calculated_checksum == m._checksum % 256
        r == from_chars(Str(b, bey, m.checkSum))
    IN IF r.ec # "ok" THEN "ERROR"
       ELSE IF calculated_checksum # r.value THEN "ERROR"
       ELSE "FINISHED"

RECURSIVE ParseLoop(_, _, _, _, _)
\* while (pos < length): one field per round; v is the view the call took
\* (data and length are not refreshed after consume), b the ring now
ParseLoop(b, bey, v, pos, m) ==
    IF ~(pos < v.length)
    THEN [result |-> "CONTINUE", buffer |-> b, message |-> m]
    ELSE
    LET t == ScanTag(b, bey, v, pos, m._checksum)
    IN IF t.err
       THEN [result |-> "ERROR", buffer |-> b,
             message |-> [m EXCEPT !._checksum = t.sum]]
       ELSE IF t.pos = v.length
       THEN [result |-> "CONTINUE", buffer |-> b,
             message |-> [m EXCEPT !._checksum = t.sum]]
       ELSE
       LET valuestart == t.pos + 1
           s == ScanValue(b, bey, v, valuestart,
                          t.sum + ByteAt(b, bey, v.start + t.pos))
       IN IF s.pos = v.length
          THEN [result |-> "CONTINUE", buffer |-> b,
                message |-> [m EXCEPT !._checksum = s.sum]]
          ELSE
          LET end == s.pos + 1
              m1 == [m EXCEPT !._checksum =
                                 s.sum + ByteAt(b, bey, v.start + s.pos)]
              m2 == setMessageField(m1, b, bey,
                        [start |-> v.start + pos, len |-> t.pos - pos],
                        [start |-> v.start + valuestart,
                         len |-> end - valuestart - 1])
              b2 == consume(b, end - pos)
          IN IF m2.finished
             THEN [result |-> CheckChecksum(b, bey, m2), buffer |-> b2,
                   message |-> m2]
             ELSE ParseLoop(b2, bey, v, end, m2)

\* parseFixMessage(buffer, message)
parseFixMessage(b, bey, m) ==
    LET v == getReadView(b)
    IN IF ~v.ok THEN [result |-> "CONTINUE", buffer |-> b, message |-> m]
       ELSE ParseLoop(b, bey, v, 0, m)

----------------------------------------------------------------------------
(* The logon handler, src/src/worker.h *)

\* Message::BeginString "8=", BodyLength "9=", MsgType "35=", CheckSum "10=",
\* SenderCompID "49=", TargetCompID "56=", SeqNumber "34="
BeginString == <<56, EQ>>
BodyLength == <<57, EQ>>
MsgType == <<51, 53, EQ>>
CheckSum == <<49, 48, EQ>>
SenderCompID == <<52, 57, EQ>>
TargetCompID == <<53, 54, EQ>>
SeqNumber == <<51, 52, EQ>>

RECURSIVE OtherFieldsBytes(_, _, _)
\* for (const auto& field : message.otherFields): first '=' second SOH
OtherFieldsBytes(fs, b, bey) ==
    IF fs = <<>> THEN <<>>
    ELSE Str(b, bey, Head(fs)[1]) \o <<EQ>> \o Str(b, bey, Head(fs)[2])
         \o <<SOH>> \o OtherFieldsBytes(Tail(fs), b, bey)

processLogon_otherFieldsLast(m, b, bey, wb) ==
    wb \o BeginString \o Str(b, bey, m.beginString) \o <<SOH>>
       \o BodyLength \o Str(b, bey, m.bodyLength) \o <<SOH>>
       \o MsgType \o Str(b, bey, m.msgType) \o <<SOH>>
       \o SeqNumber \o Str(b, bey, m.seqNumber) \o <<SOH>>
       \o SenderCompID \o Str(b, bey, m.senderCompID) \o <<SOH>>
       \o TargetCompID \o Str(b, bey, m.targetCompID) \o <<SOH>>
       \o CheckSum \o Str(b, bey, m.checkSum) \o <<SOH>>
       \o OtherFieldsBytes(m.otherFields, b, bey)

\* processLogon(message, conn): appends to conn.writeBuffer.  Line 110 reads
\* message.checksum, a member Message does not have; the string_view
\* checkSum is the only member it can mean.
processLogon(m, b, bey, wb) ==
    wb \o BeginString \o Str(b, bey, m.beginString) \o <<SOH>>
       \o BodyLength \o Str(b, bey, m.bodyLength) \o <<SOH>>
       \o MsgType \o Str(b, bey, m.msgType) \o <<SOH>>
       \o SeqNumber \o Str(b, bey, m.seqNumber) \o <<SOH>>
       \o SenderCompID \o Str(b, bey, m.senderCompID) \o <<SOH>>
       \o TargetCompID \o Str(b, bey, m.targetCompID) \o <<SOH>>
       \o OtherFieldsBytes(m.otherFields, b, bey)
       \o CheckSum \o Str(b, bey, m.checkSum) \o <<SOH>>

\* processData(message, conn): "A" is a Logon, anything else gets no answer
processData(m, b, bey, wb) ==
    IF Str(b, bey, m.msgType) = <<65>> THEN processLogon(m, b, bey, wb) ELSE wb

\* the characters of every field of a Message, as a handler reads them
FieldValues(m, b, bey) ==
    [beginString |-> Str(b, bey, m.beginString),
     bodyLength |-> Str(b, bey, m.bodyLength),
     checkSum |-> Str(b, bey, m.checkSum),
     msgType |-> Str(b, bey, m.msgType),
     senderCompID |-> Str(b, bey, m.senderCompID),
     targetCompID |-> Str(b, bey, m.targetCompID),
     clOrdID |-> Str(b, bey, m.clOrdID),
     seqNumber |-> Str(b, bey, m.seqNumber),
     otherFields |-> [i \in 1..Len(m.otherFields) |->
                        <<Str(b, bey, m.otherFields[i][1]),
                          Str(b, bey, m.otherFields[i][2])>>]]

----------------------------------------------------------------------------
(* Input: FIX messages as a peer sends them, cf. LOGON in                   *)
(* src/examples/tcp_client_demo.cpp                                        *)

\* the decimal digits of a tag number below 1000
TagBytes(n) ==
    IF n < 10 THEN <<Zero + n>>
    ELSE IF n < 100 THEN <<Zero + (n \div 10), Zero + (n % 10)>>
    ELSE <<Zero + (n \div 100), Zero + ((n \div 10) % 10), Zero + (n % 10)>>

Field(tag, value) == TagBytes(tag) \o <<EQ>> \o value \o <<SOH>>

\* the three digits of tag 10 for a body: its byte sum modulo 256
Checksum3(body) ==
    LET n == SumBytes(body) % 256
    IN <<Zero + (n \div 100), Zero + ((n \div 10) % 10), Zero + (n % 10)>>

RECURSIVE Body(_)
\* the bytes of a list of <<tag number, value>> fields
Body(fs) ==
    IF fs = <<>> THEN <<>>
    ELSE Field(Head(fs)[1], Head(fs)[2]) \o Body(Tail(fs))

\* a message is its fields before tag 10, their bytes, and the value of tag 10
Sealed(fs) == [fields |-> fs, body |-> Body(fs), chk |-> Checksum3(Body(fs))]
Bytes(m) == m.body \o Field(10, m.chk)

RECURSIVE Flatten(_)
Flatten(ms) == IF ms = <<>> THEN <<>> ELSE Bytes(Head(ms)) \o Flatten(Tail(ms))

\* 8=F 9=5 35=A 34=1 49=S 52=x 56=T 98=0
Logon ==
    Sealed(<< <<8, <<70>>>>, <<9, <<53>>>>, <<35, <<65>>>>, <<34, <<49>>>>,
              <<49, <<83>>>>, <<52, <<120>>>>, <<56, <<84>>>>, <<98, <<48>>>> >>)

\* 8=F 9=5 35=0
Heartbeat == Sealed(<< <<8, <<70>>>>, <<9, <<53>>>>, <<35, <<48>>>> >>)

\* a Heartbeat whose tag 10 is its only defect
BadSum == [Heartbeat EXCEPT !.chk = <<48, 48, 48>>]

\* a Heartbeat whose tag 10 carries its checksum in two digits, 62
ShortSum == [Heartbeat EXCEPT !.chk = <<54, 50>>]

\* 8=F A=0 ...: a byte that is no digit in a tag
BadTag == [Heartbeat EXCEPT !.body = Field(8, <<70>>) \o <<65, EQ, 48, SOH>>]

\* a Heartbeat with the field 9999999999=x, a tag beyond the range of int
BigTag ==
    LET body == Heartbeat.body \o <<57, 57, 57, 57, 57, 57, 57, 57, 57, 57,
                                    EQ, 120, SOH>>
    IN [fields |-> Heartbeat.fields, body |-> body, chk |-> Checksum3(body)]

\* the byte sum of the body matches the value of tag 10
SumOK(m) == SumBytes(m.body) % 256 = from_chars(m.chk).value

\* the value of tag 10 is exactly three decimal digits
ThreeDigits(chk) == Len(chk) = 3 /\ \A i \in 1..3 : IsDigit(chk[i])

\* byte i of s lies in a tag: no '=' between it and the field's first byte
InTag(s, i) ==
    LET ends == {j \in 1..(i - 1) : s[j] = SOH}
        from == IF ends = {} THEN 1
                ELSE 1 + CHOOSE j \in ends : \A k \in ends : k <= j
    IN \A j \in from..(i - 1) : s[j] # EQ

\* the index of the first byte of s that lies in a tag and is no digit, or 0
BadTagAt(s) ==
    LET bad == {i \in 1..Len(s) : s[i] # EQ /\ ~IsDigit(s[i]) /\ InTag(s, i)}
    IN IF bad = {} THEN 0 ELSE CHOOSE i \in bad : \A j \in bad : i <= j

WellFormed(ms) ==
    \A i \in 1..Len(ms) : /\ SumOK(ms[i])
                          /\ ThreeDigits(ms[i].chk)
                          /\ BadTagAt(ms[i].body) = 0

----------------------------------------------------------------------------
(* The state outside the part a specification exercises *)

NoCall == [called |-> FALSE, ok |-> FALSE, start |-> 0, length |-> 0]
NoEcho == [called |-> FALSE, before |-> <<>>, fields |-> <<>>]
NoOp == [op |-> "none"]

IdleParser ==
    /\ message = NewMessage
    /\ writeBuffer = <<>>
    /\ result = "NONE"
    /\ pending = <<>>
    /\ stream = <<>>
    /\ nFinished = 0
    /\ parsed = <<>>
    /\ lastEcho = NoEcho
    /\ mode = "none"
    /\ fresh = FALSE
    /\ chunks = 0

parserVars == <<message, writeBuffer, result, pending, stream, nFinished,
                parsed, lastEcho, mode, fresh, chunks>>

IdleWorker ==
    /\ sock = <<>>
    /\ peerClosed = FALSE
    /\ ready = FALSE
    /\ pc = "none"
    /\ isOpen = FALSE
    /\ errno = "0"
    /\ armedOut = FALSE
    /\ readyOut = FALSE
    /\ evOut = FALSE
    /\ conns = 0

workerVars == <<sock, peerClosed, ready, pc, isOpen, errno, armedOut, readyOut,
                evOut, conns>>

IdleServer ==
    /\ nWorkers = 0
    /\ shutdownFlag = FALSE
    /\ roundRobinIndex = 0
    /\ turn = 0
    /\ handed = <<>>
    /\ pipe = <<>>
    /\ pipeEvent = <<>>
    /\ connections = <<>>
    /\ registered = <<>>
    /\ armed = <<>>
    /\ openFds = {}
    /\ running = <<>>

serverVars == <<nWorkers, shutdownFlag, roundRobinIndex, turn, handed, pipe,
                pipeEvent, connections, registered, armed, openFds, running>>

\* an empty std::vector: no storage
NoWorkers == [size |-> 0, capacity |-> 0, data |-> 0]

\* where the construction of the TcpServer is not the matter
IdleConstruct ==
    /\ workers = NoWorkers
    /\ workerThreads = <<>>

constructVars == <<workers, workerThreads>>

\* where no TCPClient is in use
IdleClient ==
    /\ write_queue_ = <<>>
    /\ write_mutex_ = "free"
    /\ should_stop_ = FALSE
    /\ connected_ = FALSE
    /\ sendPc = "none"
    /\ recvPc = "none"
    /\ mainPc = "none"
    /\ wire = <<>>
    /\ queued = <<>>

clientVars == <<write_queue_, write_mutex_, should_stop_, connected_, sendPc,
                recvPc, mainPc, wire, queued>>

----------------------------------------------------------------------------
(* SpecRing: a CircularBuffer of any capacity 1..MaxCap under arbitrary     *)
(* calls of its public operations                                          *)

RingBytes == {65, 66}

\* the byte strings handed to the write operations: up to MaxCap + 1 bytes
\* that alternate between the two values, starting with either
RingData ==
    {[i \in 1..n |-> IF i % 2 = 1 THEN c ELSE CHOOSE d \in RingBytes : d # c] :
        n \in 0..(MaxCap + 1), c \in RingBytes}

InitRing ==
    /\ \E c \in 1..MaxCap, fill \in RingBytes : buffer = CircularBuffer(c, fill)
    /\ beyond = SOH
    /\ view = NoCall
    /\ accepted = <<>>
    /\ taken = <<>>
    /\ call = NoOp
    /\ IdleParser
    /\ IdleWorker
    /\ IdleServer
    /\ IdleConstruct
    /\ IdleClient

\* the record of a call: the buffer before it, its arguments, what it
\* returned, how many read/write system calls it made and what they were given
Called(op, before, data, arg, ret, io, req, offered) ==
    [op |-> op, before |-> before, data |-> data, arg |-> arg, ret |-> ret,
     io |-> io, req |-> req, offered |-> offered]

\* data points at MaxCap + 1 bytes, length says how many of them to write
RingWriteFromBytes ==
    \E data \in RingData, length \in 0..(MaxCap + 1) :
        /\ Len(data) = MaxCap + 1
        /\ LET w == writeFromBytes(buffer, data, length)
           IN /\ buffer' = w.ring
              /\ call' = Called("writeFromBytes", buffer, data, length, w.ret,
                                0, 0, <<>>)
        /\ view' = NoCall
        /\ UNCHANGED <<beyond, accepted, taken, parserVars, workerVars, serverVars, constructVars, clientVars>>

RingWriteFromString ==
    \E data \in RingData :
        /\ LET w == writeFromString(buffer, data)
           IN /\ buffer' = w.ring
              /\ call' = Called("writeFromBytes", buffer, data, Len(data),
                                w.ret, 0, 0, <<>>)
        /\ view' = NoCall
        /\ UNCHANGED <<beyond, accepted, taken, parserVars, workerVars, serverVars, constructVars, clientVars>>

RingWriteFromByte ==
    \E data \in RingBytes :
        /\ LET w == writeFromByte(buffer, data)
           IN /\ buffer' = w.ring
              /\ call' = Called("writeFromByte", buffer, <<data>>, 1, w.ret,
                                0, 0, <<>>)
        /\ view' = NoCall
        /\ UNCHANGED <<beyond, accepted, taken, parserVars, workerVars, serverVars, constructVars, clientVars>>

\* the socket holds the bytes sk, or nothing because the peer has closed
RingWriteFromSocket ==
    \E sk \in RingData, closed \in BOOLEAN :
        /\ closed => sk = <<>>
        /\ LET w == writeFromSocket(buffer, sk, closed, "0")
           IN /\ buffer' = w.ring
              /\ call' = Called("writeFromSocket", buffer, sk, Len(sk), w.ret,
                                w.reads, w.req, <<>>)
        /\ view' = NoCall
        /\ UNCHANGED <<beyond, accepted, taken, parserVars, workerVars, serverVars, constructVars, clientVars>>

\* the socket takes up to room bytes, or the write fails
RingReadToSocket ==
    \E room \in -1..(MaxCap + 1) :
        /\ LET r == readToSocket(buffer, room)
           IN /\ buffer' = r.ring
              /\ call' = Called("readToSocket", buffer, <<>>, room, r.ret,
                                r.writes, 0, r.offered)
        /\ view' = NoCall
        /\ UNCHANGED <<beyond, accepted, taken, parserVars, workerVars, serverVars, constructVars, clientVars>>

RingConsume ==
    \E bytes \in 0..(MaxCap + 1) :
        /\ buffer' = consume(buffer, bytes)
        /\ call' = Called("consume", buffer, <<>>, bytes, 0, 0, 0, <<>>)
        /\ view' = NoCall
        /\ UNCHANGED <<beyond, accepted, taken, parserVars, workerVars, serverVars, constructVars, clientVars>>

RingGetReadView ==
    /\ view' = [called |-> TRUE] @@ getReadView(buffer)
    /\ UNCHANGED <<buffer, beyond, call, accepted, taken, parserVars, workerVars,
                   serverVars, constructVars, clientVars>>

NextRing ==
    \/ RingWriteFromByte
    \/ RingWriteFromBytes
    \/ RingWriteFromString
    \/ RingWriteFromSocket
    \/ RingReadToSocket
    \/ RingConsume
    \/ RingGetReadView

SpecRing == InitRing /\ [][NextRing]_vars

\* C8: after every call on a CircularBuffer of capacity C >= 1,
\* dataSize() + availableSpace() = C and 0 <= dataSize() <= C.
C8_SizePlusSpaceIsCapacity ==
    /\ dataSize(buffer) + availableSpace(buffer) = buffer.capacity_
    /\ 0 <= dataSize(buffer)
    /\ dataSize(buffer) <= buffer.capacity_

\* C8's case: data lies across the end of the storage (tail_ behind head_)
C8_Witness ==
    /\ buffer.tail_ < buffer.head_
    /\ dataSize(buffer) = buffer.capacity_ - 1
    /\ buffer.capacity_ > 2

\* C9: head_ and tail_ lie in [0, capacity); full_ implies head_ = tail_ and
\* dataSize() = capacity; not full_ and head_ = tail_ implies dataSize() = 0.
C9_IndexAndFullInvariant ==
    /\ buffer.head_ \in 0..(buffer.capacity_ - 1)
    /\ buffer.tail_ \in 0..(buffer.capacity_ - 1)
    /\ buffer.full_ => (buffer.head_ = buffer.tail_
                        /\ dataSize(buffer) = buffer.capacity_)
    /\ (~buffer.full_ /\ buffer.head_ = buffer.tail_) => dataSize(buffer) = 0

\* C9's case: a write has reached the end of the storage and filled the buffer
C9_Witness ==
    /\ buffer.full_
    /\ buffer.head_ = buffer.tail_
    /\ buffer.head_ > 0

\* C10: getReadView returns false iff dataSize() = 0; otherwise start = head_
\* and length = min(dataSize(), capacity - head_) >= 1, also when the buffer
\* is full.
C10_ReadViewIsContiguousRun ==
    view.called =>
        /\ (~view.ok) <=> (dataSize(buffer) = 0)
        /\ view.ok =>
            /\ view.start = buffer.head_
            /\ view.length = Min(dataSize(buffer),
                                 buffer.capacity_ - buffer.head_)
            /\ view.length >= 1

\* the unread bytes of a buffer, oldest first
Unread(b) ==
    [i \in 1..dataSize(b) |-> b.buffer_[(b.head_ + i - 1) % b.capacity_]]

\* C11: writeFromBytes(data, k) on a buffer with room, whose contiguous
\* writable run is w = min(availableSpace(), capacity - tail_), copies
\* min(k, w) bytes at tail_, returns that count, increases dataSize() by it
\* and leaves the unread bytes as they were, for every k >= 0.
C11_WriteCopiesWhatFits ==
    (call.op = "writeFromBytes" /\ availableSpace(call.before) > 0)
    => LET w == Min(availableSpace(call.before),
                    call.before.capacity_ - call.before.tail_)
           n == Min(call.arg, w)
       IN /\ call.ret = n
          /\ dataSize(buffer) = dataSize(call.before) + call.ret
          /\ buffer.head_ = call.before.head_
          /\ Unread(buffer) = Unread(call.before) \o SubSeq(call.data, 1, n)

\* C12: consume(n) advances head_ by m = min(n, dataSize()) modulo capacity,
\* decreases dataSize() by m and leaves tail_ and the remaining unread bytes
\* unchanged, for every n >= 0.
C12_ConsumeAdvancesHead ==
    call.op = "consume"
    => LET m == Min(call.arg, dataSize(call.before))
       IN /\ buffer.head_ = (call.before.head_ + m) % call.before.capacity_
          /\ dataSize(buffer) = dataSize(call.before) - m
          /\ buffer.tail_ = call.before.tail_
          /\ Unread(buffer) = SubSeq(Unread(call.before), m + 1,
                                     dataSize(call.before))

\* C13: empty() returns true if and only if dataSize() = 0.
C13_EmptyIffNoData == empty(buffer) <=> (dataSize(buffer) = 0)

\* C14: writeFromSocket issues at most one read, asking for
\* min(availableSpace(), capacity - tail_) bytes; n > 0 bytes read advance
\* tail_ by n modulo capacity, grow dataSize() by n, leave head_ and the
\* unread bytes alone; a read of 0 or less leaves the buffer unchanged.
C14_SocketReadStaysInRun ==
    call.op = "writeFromSocket"
    => /\ call.io <= 1
       /\ call.io = 1 => call.req = Min(availableSpace(call.before),
                              call.before.capacity_ - call.before.tail_)
       /\ call.ret <= call.req
       /\ call.ret > 0 =>
            /\ buffer.tail_ = (call.before.tail_ + call.ret)
                                  % call.before.capacity_
            /\ dataSize(buffer) = dataSize(call.before) + call.ret
            /\ buffer.head_ = call.before.head_
            /\ Unread(buffer) = Unread(call.before)
                                    \o SubSeq(call.data, 1, call.ret)
       /\ call.ret <= 0 => buffer = call.before

\* C14's case: the socket holds more than fits before the end of the
\* storage, and there is room at the start of the storage as well
C14_Witness ==
    /\ call.op = "writeFromSocket"
    /\ call.ret > 0
    /\ call.before.tail_ > 0
    /\ availableSpace(call.before)
           > call.before.capacity_ - call.before.tail_
    /\ call.arg > call.req
    /\ dataSize(call.before) > 0

\* C15: readToSocket offers the socket the contiguous readable run at head_,
\* min(dataSize(), capacity - head_) bytes; n > 0 bytes accepted advance
\* head_ by n and shrink dataSize() by n; a write of 0 or less leaves head_,
\* tail_ and full_ unchanged.
C15_SocketWriteConsumesWritten ==
    (call.op = "readToSocket" /\ call.io = 1)
    => LET run == Min(dataSize(call.before),
                      call.before.capacity_ - call.before.head_)
       IN /\ call.offered = SubSeq(Unread(call.before), 1, run)
          /\ call.ret <= run
          /\ call.ret > 0 =>
               /\ buffer.head_ = (call.before.head_ + call.ret)
                                     % call.before.capacity_
               /\ dataSize(buffer) = dataSize(call.before) - call.ret
               /\ buffer.tail_ = call.before.tail_
               /\ Unread(buffer) = SubSeq(Unread(call.before), call.ret + 1,
                                          dataSize(call.before))
          /\ call.ret <= 0 => buffer = call.before

\* C15's case: a partial write from a full buffer whose data lies across
\* the end of the storage
C15_Witness ==
    /\ call.op = "readToSocket"
    /\ call.before.full_
    /\ call.before.head_ > 0
    /\ call.ret > 0
    /\ call.ret < Len(call.offered)

----------------------------------------------------------------------------
(* SpecFifo: a writer and a reader share one CircularBuffer.  The writer   *)
(* calls writeFromBytes and writeFromByte; the reader takes a read view,   *)
(* uses some or all of the bytes it exposes and consumes that many.        *)

InitFifo == InitRing

\* what a write call accepted: the first ret bytes of data
Accepted(data, ret) == IF ret > 0 THEN SubSeq(data, 1, ret) ELSE <<>>

FifoWriteFromBytes ==
    /\ Len(accepted) < MaxAccepted
    /\ \E data \in RingData, length \in 0..(MaxCap + 1) :
          /\ Len(data) = MaxCap + 1
          /\ LET w == writeFromBytes(buffer, data, length)
             IN /\ buffer' = w.ring
                /\ accepted' = accepted \o Accepted(data, w.ret)
                /\ call' = Called("writeFromBytes", buffer, data, length, w.ret,
                                  0, 0, <<>>)
    /\ view' = NoCall
    /\ UNCHANGED <<beyond, taken, parserVars, workerVars, serverVars, constructVars, clientVars>>

FifoWriteFromByte ==
    /\ Len(accepted) < MaxAccepted
    /\ \E data \in RingBytes :
          LET w == writeFromByte(buffer, data)
          IN /\ buffer' = w.ring
             /\ accepted' = accepted \o Accepted(<<data>>, w.ret)
             /\ call' = Called("writeFromByte", buffer, <<data>>, 1, w.ret,
                               0, 0, <<>>)
    /\ view' = NoCall
    /\ UNCHANGED <<beyond, taken, parserVars, workerVars, serverVars, constructVars, clientVars>>

\* getReadView, then consume(bytes) for up to the length the view gave
FifoRead ==
    LET v == getReadView(buffer)
    IN /\ view' = [called |-> TRUE] @@ v
       /\ IF v.ok
          THEN \E bytes \in 0..v.length :
                  /\ taken' = taken \o [i \in 1..bytes |->
                                           buffer.buffer_[v.start + i - 1]]
                  /\ buffer' = consume(buffer, bytes)
                  /\ call' = Called("consume", buffer, <<>>, bytes, 0, 0, 0, <<>>)
          ELSE UNCHANGED <<buffer, taken, call>>
       /\ UNCHANGED <<beyond, accepted, parserVars, workerVars, serverVars, constructVars, clientVars>>

NextFifo ==
    \/ FifoWriteFromBytes
    \/ FifoWriteFromByte
    \/ FifoRead

SpecFifo == InitFifo /\ [][NextFifo]_vars

IsPrefix(s, t) == Len(s) <= Len(t) /\ SubSeq(t, 1, Len(s)) = s

\* C32: the CircularBuffer is a FIFO byte queue: the bytes that read views
\* exposed and consume removed are, in order, a prefix of the bytes the
\* writes accepted; none is lost, duplicated or reordered, also across the
\* end of the storage and across the full state.
C32_FifoPrefix == IsPrefix(taken, accepted)

----------------------------------------------------------------------------
(* SpecParse: a stream of messages is written into the inbound ring and    *)
(* parsed.  In mode "chunks" one message arrives in chunks and              *)
(* parseFixMessage is called after each chunk; in mode "blob" the whole    *)
(* stream is resident before the first call, and the calls are repeated.   *)
(* A FINISHED message goes to processData and the Message is reset.        *)

ParseStreams ==
    {<<Logon>>, <<Heartbeat>>, <<BadSum>>, <<ShortSum>>, <<BadTag>>,
     <<BigTag>>, <<Heartbeat, Logon>>, <<Logon, Logon>>}

\* what the storage and the byte after it hold before anything is written
StaleBytes == {EQ, SOH}

InitParse ==
    /\ stream \in ParseStreams
    /\ pending = Flatten(stream)
    /\ mode \in {"chunks", "blob"}
    /\ mode = "chunks" => Len(stream) = 1
    /\ beyond \in StaleBytes
    /\ \E c \in {Len(pending), Len(pending) + ParseSlack}, off \in 0..MaxOffset :
          buffer = [CircularBuffer(c, beyond) EXCEPT !.head_ = off, !.tail_ = off]
    /\ message = NewMessage
    /\ writeBuffer = <<>>
    /\ result = "NONE"
    /\ nFinished = 0
    /\ parsed = <<>>
    /\ lastEcho = NoEcho
    /\ fresh = FALSE
    /\ chunks = 0
    /\ view = NoCall
    /\ accepted = <<>>
    /\ taken = <<>>
    /\ call = NoOp
    /\ IdleWorker
    /\ IdleServer
    /\ IdleConstruct
    /\ IdleClient

\* one parseFixMessage call on ring b and what the caller does with the result
CallParser(b) ==
    LET r == parseFixMessage(b, beyond, message)
    IN /\ buffer' = r.buffer
       /\ result' = r.result
       /\ fresh' = (r.buffer # b \/ r.result = "FINISHED")
       /\ IF r.result = "FINISHED"
          THEN /\ nFinished' = nFinished + 1
               /\ parsed' = Append(parsed, FieldValues(r.message, r.buffer, beyond))
               /\ lastEcho' = [called |-> TRUE, before |-> writeBuffer,
                               fields |-> FieldValues(r.message, r.buffer, beyond)]
               /\ writeBuffer' = processData(r.message, r.buffer, beyond, writeBuffer)
               /\ message' = reset(r.message)
          ELSE /\ message' = r.message
               /\ UNCHANGED <<nFinished, parsed, lastEcho, writeBuffer>>

\* a chunk of k bytes arrives and the parser is called; the last of the
\* sender's chunks carries the rest (the end of the storage may cut it)
FeedChunk ==
    /\ mode = "chunks"
    /\ result # "ERROR"
    /\ availableSpace(buffer) > 0
    /\ \E k \in 1..Len(pending) :
          /\ chunks >= MaxChunks - 1 => k = Len(pending)
          /\ LET w == writeFromBytes(buffer, pending, k)
             IN /\ pending' = SubSeq(pending, w.ret + 1, Len(pending))
                /\ CallParser(w.ring)
    /\ chunks' = chunks + 1
    /\ UNCHANGED <<beyond, stream, mode, view, call, accepted, taken, workerVars, serverVars, constructVars, clientVars>>

\* the blob is written, around the end of the storage if need be
DeliverBlob ==
    /\ mode = "blob"
    /\ pending # <<>>
    /\ availableSpace(buffer) > 0
    /\ LET w == writeFromBytes(buffer, pending, Len(pending))
       IN /\ buffer' = w.ring
          /\ pending' = SubSeq(pending, w.ret + 1, Len(pending))
    /\ fresh' = TRUE
    /\ UNCHANGED <<beyond, message, writeBuffer, result, stream, nFinished,
                   parsed, lastEcho, mode, chunks, view, call, accepted, taken, workerVars, serverVars, constructVars, clientVars>>

\* the parser is called again on what is resident
ParseResident ==
    /\ mode = "blob"
    /\ pending = <<>>
    /\ result # "ERROR"
    /\ fresh
    /\ CallParser(buffer)
    /\ UNCHANGED <<beyond, pending, stream, mode, chunks, view, call, accepted, taken, workerVars, serverVars, constructVars, clientVars>>

\* the parser is called once more although the ring has not changed since a
\* call that returned CONTINUE; such a call can change _checksum only, which
\* it may raise up to ChecksumCap
ParseAgain ==
    /\ pending = <<>>
    /\ result = "CONTINUE"
    /\ ~fresh
    /\ message._checksum < ChecksumCap
    /\ CallParser(buffer)
    /\ UNCHANGED <<beyond, pending, stream, mode, chunks, view, call, accepted, taken, workerVars, serverVars, constructVars, clientVars>>

NextParse ==
    \/ FeedChunk
    \/ DeliverBlob
    \/ ParseResident
    \/ ParseAgain

SpecParse == InitParse /\ [][NextParse]_vars

\* the input is delivered and the parser is called again and again
FairParse ==
    /\ SpecParse
    /\ WF_vars(DeliverBlob)
    /\ WF_vars(ParseAgain)

\* the bytes of the stream that have reached the connection
Arrived == Len(Flatten(stream)) - Len(pending)

\* the fields of message m when it is parsed from a single chunk
AtomicFields(m) ==
    LET b == writeFromBytes(CircularBuffer(Len(Bytes(m)) + 1, SOH), Bytes(m),
                            Len(Bytes(m))).ring
        r == parseFixMessage(b, SOH, NewMessage)
    IN FieldValues(r.message, r.buffer, SOH)

\* the parser has been called on everything and a further call gets nowhere
Quiescent == pending = <<>> /\ result # "NONE" /\ (~fresh \/ result = "ERROR")

\* the ring has room for the whole stream without reaching the end of its
\* storage: it never wraps and never fills
Roomy == buffer.capacity_ > Len(Flatten(stream)) + MaxOffset

\* C1: a well-formed message delivered in chunks, with parseFixMessage
\* called after each chunk: CONTINUE until the message is complete, then
\* FINISHED with the fields of the single-chunk parse and nothing of the
\* message left in the ring.  Stated for a ring the message does not wrap
\* in, where the chunking alone decides the outcome.
C1_ChunkedEqualsAtomic ==
    (mode = "chunks" /\ Len(stream) = 1 /\ WellFormed(stream) /\ Roomy
     /\ result # "NONE")
    => IF pending # <<>>
       THEN result = "CONTINUE"
       ELSE /\ result = "FINISHED"
            /\ parsed = <<AtomicFields(stream[1])>>
            /\ dataSize(buffer) = 0

\* C2: a blob of N well-formed messages resident in the ring: repeated
\* calls return FINISHED exactly N times, in wire order, never ERROR, and
\* then dataSize() is 0.
C2_BlobFinishesNTimes ==
    (mode = "blob" /\ WellFormed(stream))
    => /\ result # "ERROR"
       /\ nFinished <= Len(stream)
       /\ \A i \in 1..nFinished : parsed[i] = AtomicFields(stream[i])
       /\ Quiescent => (nFinished = Len(stream) /\ dataSize(buffer) = 0)

\* C3: parseFixMessage returns FINISHED if and only if the byte sum modulo
\* 256 of the message before its "10=" field equals the value of tag 10;
\* when tag 10 is the only defect the result is ERROR.  Stated for a ring
\* the message does not wrap in and a tag 10 of three digits.
C3_FinishedIffChecksumMatches ==
    (Len(stream) = 1 /\ Roomy /\ ThreeDigits(stream[1].chk))
    => /\ nFinished > 0 => SumOK(stream[1])
       /\ (Quiescent /\ SumOK(stream[1])) => nFinished = 1
       /\ (Quiescent /\ ~SumOK(stream[1])) => result = "ERROR"

\* what the last handler call appended to writeBuffer
Appended == SubSeq(writeBuffer, Len(lastEcho.before) + 1, Len(writeBuffer))

Contains(hay, needle) ==
    \E i \in 1..(Len(hay) - Len(needle) + 1) :
        SubSeq(hay, i, i + Len(needle) - 1) = needle

\* C4: the echo of a Logon swaps the CompIDs: the request's targetCompID
\* (tag 56) follows "49=" and its senderCompID (tag 49) follows "56=".
C4_EchoSwapsCompIDs ==
    (lastEcho.called /\ lastEcho.fields.msgType = <<65>>)
    => Contains(Appended,
                <<SOH>> \o SenderCompID \o lastEcho.fields.targetCompID
                \o <<SOH>> \o TargetCompID \o lastEcho.fields.senderCompID
                \o <<SOH>>)

RECURSIVE PairsBytes(_)
PairsBytes(fs) ==
    IF fs = <<>> THEN <<>>
    ELSE Head(fs)[1] \o <<EQ>> \o Head(fs)[2] \o <<SOH>> \o PairsBytes(Tail(fs))

\* the fields 8, 9, 35, 34, 49, 56, the other fields, 10, each <tag>=<value>SOH
EchoOf(f, v49, v56) ==
    PairsBytes(<< <<TagBytes(8), f.beginString>>, <<TagBytes(9), f.bodyLength>>,
                  <<TagBytes(35), f.msgType>>, <<TagBytes(34), f.seqNumber>>,
                  <<TagBytes(49), v49>>, <<TagBytes(56), v56>> >>
               \o f.otherFields
               \o << <<TagBytes(10), f.checkSum>> >>)

Dedicated == {8, 9, 10, 11, 34, 35, 49, 56}

\* the fields of a request that have no slot of their own, in wire order
WireOthers(m) ==
    LET fs == SelectSeq(m.fields, LAMBDA p : p[1] \notin Dedicated)
    IN [i \in 1..Len(fs) |-> <<TagBytes(fs[i][1]), fs[i][2]>>]

C16_PrefixNeedsMore ==
    (mode = "chunks" /\ WellFormed(stream) /\ chunks = 1 /\ pending # <<>>)
    => (result = "CONTINUE" /\ ~message.finished /\ nFinished = 0)

\* C16's case: the prefix ends directly after '=', a field of it has been
\* consumed, and the stale byte that follows it in the storage is SOH
C16_Witness ==
    /\ mode = "chunks" /\ WellFormed(stream) /\ chunks = 1 /\ pending # <<>>
    /\ result = "CONTINUE"
    /\ buffer.tail_ > 0
    /\ buffer.buffer_[buffer.tail_ - 1] = EQ
    /\ ByteAt(buffer, beyond, buffer.tail_) = SOH
    /\ dataSize(buffer) < Arrived

\* byte k of the stream was stored before the end of the storage was reached
BeforeWrap(k) ==
    LET off == (buffer.tail_ + buffer.capacity_ - Arrived) % buffer.capacity_
    IN off + k <= buffer.capacity_

\* C17: once a byte that is no digit has arrived among the bytes of a tag,
\* inside the readable run, the parseFixMessage call returns ERROR and the
\* Message is not finished, wherever the byte is and however the input was
\* chunked.
C17_BadTagByteIsError ==
    LET k == BadTagAt(Flatten(stream))
    IN (k > 0 /\ result # "NONE" /\ Arrived >= k /\ BeforeWrap(k))
       => (result = "ERROR" /\ ~message.finished /\ nFinished = 0)

\* C18: a tag 10 whose value is not exactly three decimal digits makes
\* parseFixMessage return ERROR, never FINISHED.  Stated for a ring the
\* message does not wrap in.
C18_ChecksumFieldHasThreeDigits ==
    (Len(stream) = 1 /\ ~ThreeDigits(stream[1].chk) /\ Roomy)
    => /\ nFinished = 0
       /\ Quiescent => result = "ERROR"

\* the index of the first c in s at or after index from
First(s, c, from) ==
    CHOOSE j \in from..Len(s) : s[j] = c /\ \A k \in from..(j - 1) : s[k] # c

RECURSIVE WireFields(_)
\* the <<tag, value>> pairs of a byte string made of <tag>=<value>SOH fields
WireFields(s) ==
    IF s = <<>> THEN <<>>
    ELSE LET e == First(s, EQ, 1)
             h == First(s, SOH, e + 1)
         IN << <<SubSeq(s, 1, e - 1), SubSeq(s, e + 1, h - 1)>> >>
            \o WireFields(SubSeq(s, h + 1, Len(s)))

\* the value of the last field with tag number n, empty when there is none
SlotValue(fs, n) ==
    LET is == {i \in 1..Len(fs) : fs[i][1] = TagBytes(n)}
    IN IF is = {} THEN <<>>
       ELSE fs[CHOOSE i \in is : \A j \in is : j <= i][2]

\* the fields without a slot of their own, in wire order
OtherPairs(fs) ==
    SelectSeq(fs, LAMBDA p : p[1] \notin {TagBytes(n) : n \in Dedicated})

\* what a Message holds once the fields fs have each been stored once
Stored(fs) ==
    [beginString |-> SlotValue(fs, 8), bodyLength |-> SlotValue(fs, 9),
     checkSum |-> SlotValue(fs, 10), msgType |-> SlotValue(fs, 35),
     senderCompID |-> SlotValue(fs, 49), targetCompID |-> SlotValue(fs, 56),
     clOrdID |-> SlotValue(fs, 11), seqNumber |-> SlotValue(fs, 34),
     otherFields |-> OtherPairs(fs)]

\* C19: every complete field is stored exactly once: tags 8, 9, 10, 11, 34,
\* 35, 49 and 56 in their slot, every field with another all-digit tag, of
\* any length or magnitude, in otherFields, in wire order, none dropped.
C19_EveryFieldStoredOnce ==
    \A i \in 1..nFinished : parsed[i] = Stored(WireFields(Bytes(stream[i])))

\* the bytes of the message that parseFixMessage has committed and consumed
Committed == SubSeq(Flatten(stream), 1, Arrived - dataSize(buffer))

\* C28: at a return of parseFixMessage with CONTINUE the running checksum is
\* the byte sum of the fields committed and consumed so far; the bytes of a
\* trailing partial field, which stay in the ring, are not in it.  Stated
\* for a message in a ring it does not wrap in.
C28_ChecksumCountsCommittedOnly ==
    (mode = "chunks" /\ WellFormed(stream) /\ Roomy /\ result = "CONTINUE")
    => message._checksum = SumBytes(Committed)

\* a complete field '<tag>=<value>SOH' among the unread bytes of b has its
\* first byte before the end of the storage and its SOH after it: the unread
\* bytes run past the end, the last byte of the storage is not the SOH of a
\* field, and an SOH follows among the bytes stored from index 0
StraddlingField(b) ==
    LET wrapped == b.head_ + dataSize(b) - b.capacity_
    IN /\ wrapped > 0
       /\ b.buffer_[b.capacity_ - 1] # SOH
       /\ \E j \in 0..(wrapped - 1) : b.buffer_[j] = SOH

\* C31: a complete field of a well-formed stream that straddles the end of
\* the ring's storage is committed and consumed by the repeated
\* parseFixMessage calls; the parser does not stay behind it for ever.
\* Stated for a ring that is not full.
C31_StraddlingFieldIsConsumed ==
    (WellFormed(stream) /\ ~buffer.full_ /\ StraddlingField(buffer))
    ~> ~StraddlingField(buffer)

----------------------------------------------------------------------------
(* SpecWorker: the connections of one WorkerThread under one fd number,    *)
(* src/src/worker.h.  The peer's stream reaches the socket in pieces; the  *)
(* worker takes the EPOLLIN event and calls processFixStream until it      *)
(* returns false, and writes what is pending on the EPOLLOUT event.  When  *)
(* the connection is closed the next one comes under the same fd number.   *)

\* a Logon longer than the inbound ring: its field 52 has a value that ends
\* the field on the last byte of the ring's storage
LongLogon ==
    LET front == << <<8, <<70>>>>, <<9, <<53>>>>, <<35, <<65>>>>,
                    <<34, <<49>>>>, <<49, <<83>>>> >>
        long == [i \in 1..(WorkerCap - Len(Body(front)) - Len(Field(52, <<>>)))
                    |-> 120]
    IN Sealed(front \o << <<52, long>>, <<56, <<84>>>>, <<98, <<48>>>> >>)

WorkerStreams ==
    {<<Logon>>, <<Heartbeat>>, <<BadSum>>, <<BadTag>>, <<Logon, Logon>>,
     <<LongLogon>>}

InitWorker ==
    /\ stream \in WorkerStreams
    /\ pending = Flatten(stream)
    /\ beyond \in StaleBytes
    /\ buffer = CircularBuffer(WorkerCap, beyond)
    /\ message = NewMessage
    /\ writeBuffer = <<>>
    /\ result = "NONE"
    /\ nFinished = 0
    /\ parsed = <<>>
    /\ lastEcho = NoEcho
    /\ mode = "worker"
    /\ fresh = FALSE
    /\ chunks = 0
    /\ sock = <<>>
    /\ peerClosed = FALSE
    /\ ready = FALSE
    /\ pc = "epoll_wait"
    /\ isOpen = TRUE
    /\ errno = "0"
    /\ armedOut = FALSE
    /\ readyOut = FALSE
    /\ evOut = FALSE
    /\ conns = 1
    /\ view = NoCall
    /\ accepted = <<>>
    /\ taken = <<>>
    /\ call = NoOp
    /\ IdleServer
    /\ IdleConstruct
    /\ IdleClient

\* the streams of a connection that reuses the fd number
LaterStreams == {<<Logon>>, <<Heartbeat>>}

\* the errors a write to the socket fails with
WriteErrors == {"EAGAIN", "ECONNRESET"}

\* EWOULDBLOCK of <errno.h>
EWOULDBLOCK == 11

\* how many bytes of wb the socket takes before a write fails: none, all
\* but the last, or all of them
WriteCuts(wb) == {n \in {0, Len(wb) - 1, Len(wb)} : n >= 0}

\* the next k bytes of the stream reach the socket: an edge for EPOLLIN
Arrive ==
    /\ pending # <<>>
    /\ \E k \in 1..Len(pending) :
          /\ chunks >= MaxArrivals - 1 => k = Len(pending)
          /\ sock' = sock \o SubSeq(pending, 1, k)
          /\ pending' = SubSeq(pending, k + 1, Len(pending))
    /\ chunks' = chunks + 1
    /\ ready' = isOpen
    /\ UNCHANGED <<buffer, beyond, message, writeBuffer, result, stream,
                   nFinished, parsed, lastEcho, mode, fresh, peerClosed, pc,
                   isOpen, errno, armedOut, readyOut, evOut, conns, view, call, accepted, taken, serverVars, constructVars, clientVars>>

\* the peer closes after its last byte
PeerClose ==
    /\ pending = <<>>
    /\ ~peerClosed
    /\ peerClosed' = TRUE
    /\ ready' = isOpen
    /\ UNCHANGED <<buffer, beyond, message, writeBuffer, result, pending,
                   stream, nFinished, parsed, lastEcho, mode, fresh, chunks,
                   sock, pc, isOpen, errno, armedOut, readyOut, evOut, conns,
                   view, call, accepted, taken, serverVars, constructVars, clientVars>>

\* the socket is writable while EPOLLOUT is in the fd's mask: an edge for
\* EPOLLOUT
Writable ==
    /\ isOpen
    /\ armedOut
    /\ ~readyOut
    /\ readyOut' = TRUE
    /\ UNCHANGED <<buffer, beyond, message, writeBuffer, result, pending,
                   stream, nFinished, parsed, lastEcho, mode, fresh, chunks,
                   sock, peerClosed, ready, pc, isOpen, errno, armedOut, evOut,
                   conns, view, call, accepted, taken, serverVars, constructVars, clientVars>>

\* run(): epoll_wait returns the fd with EPOLLIN, and with EPOLLOUT as well
\* when that is pending too
EpollWaitIn ==
    /\ pc = "epoll_wait"
    /\ isOpen
    /\ ready
    /\ ready' = FALSE
    /\ evOut' = readyOut
    /\ readyOut' = FALSE
    /\ pc' = "EPOLLIN"
    /\ UNCHANGED <<buffer, beyond, message, writeBuffer, result, pending,
                   stream, nFinished, parsed, lastEcho, mode, fresh, chunks,
                   sock, peerClosed, isOpen, errno, armedOut, conns, view, call, accepted, taken, serverVars, constructVars, clientVars>>

\* run(): epoll_wait returns the fd with EPOLLOUT alone
EpollWaitOut ==
    /\ pc = "epoll_wait"
    /\ isOpen
    /\ ~ready
    /\ readyOut
    /\ readyOut' = FALSE
    /\ evOut' = TRUE
    /\ pc' = "EPOLLOUT"
    /\ UNCHANGED <<buffer, beyond, message, writeBuffer, result, pending,
                   stream, nFinished, parsed, lastEcho, mode, fresh, chunks,
                   sock, peerClosed, ready, isOpen, errno, armedOut, conns,
                   view, call, accepted, taken, serverVars, constructVars, clientVars>>

\* run(), after while (processFixStream(fd)) {}: setEpollEvents arms nothing
\* but EPOLLIN, whatever conn.writeBuffer holds
AfterLoop_neverArms(open, wb, eno) ==
    /\ pc' = IF evOut THEN "EPOLLOUT" ELSE "epoll_wait"
    /\ armedOut' = IF open THEN FALSE ELSE armedOut
    /\ readyOut' = FALSE
    /\ errno' = IF open THEN eno ELSE "EBADF"

\* run(), after while (processFixStream(fd)) {}: setEpollEvents by what is
\* pending in conn.writeBuffer; epoll_ctl on a closed fd fails with EBADF.
\* The event's EPOLLOUT part, if it has one, is handled next.
AfterLoop(open, wb, eno) ==
    /\ pc' = IF evOut THEN "EPOLLOUT" ELSE "epoll_wait"
    /\ armedOut' = IF open THEN wb # <<>> ELSE armedOut
    /\ readyOut' = IF open /\ wb # <<>> THEN readyOut ELSE FALSE
    /\ errno' = IF open THEN eno ELSE "EBADF"

\* closeConnection(fd): EPOLL_CTL_DEL, close, connections.erase
closeConnection ==
    /\ isOpen' = FALSE
    /\ writeBuffer' = <<>>
    /\ ready' = FALSE

\* one call of processFixStream(fd) from the EPOLLIN loop of run(), and, when
\* it returns false, the rest of the EPOLLIN handling
ProcessFixStream ==
    /\ pc = "EPOLLIN"
    /\ LET w == writeFromSocket(buffer, sock, peerClosed, errno)
       IN /\ sock' = w.sock
          /\ IF w.ret < 0
             THEN \* EAGAIN or EWOULDBLOCK: return false; else close
                  /\ IF w.errno = "EAGAIN"
                     THEN /\ AfterLoop(TRUE, writeBuffer, w.errno)
                          /\ UNCHANGED <<isOpen, writeBuffer, ready>>
                     ELSE /\ closeConnection
                          /\ AfterLoop(FALSE, <<>>, w.errno)
                  /\ UNCHANGED <<buffer, message, result, nFinished, parsed,
                                 lastEcho, fresh>>
             ELSE IF w.ret = 0
             THEN /\ closeConnection
                  /\ AfterLoop(FALSE, <<>>, w.errno)
                  /\ UNCHANGED <<buffer, message, result, nFinished, parsed,
                                 lastEcho, fresh>>
             ELSE LET r == parseFixMessage(w.ring, beyond, message)
                  IN /\ buffer' = r.buffer
                     /\ message' = r.message
                     /\ result' = r.result
                     /\ fresh' = (r.buffer # w.ring)
                     /\ UNCHANGED <<isOpen, ready>>
                     /\ IF r.result = "FINISHED"
                        THEN \* processData(message, connections[fd]); return true
                             /\ nFinished' = nFinished + 1
                             /\ parsed' = Append(parsed,
                                    FieldValues(r.message, r.buffer, beyond))
                             /\ lastEcho' =
                                    [called |-> TRUE, before |-> writeBuffer,
                                     fields |-> FieldValues(r.message, r.buffer,
                                                            beyond)]
                             /\ writeBuffer' = processData(r.message, r.buffer,
                                                           beyond, writeBuffer)
                             /\ UNCHANGED <<pc, armedOut, readyOut, errno>>
                        ELSE \* default: return false
                             /\ AfterLoop(TRUE, writeBuffer, w.errno)
                             /\ UNCHANGED <<nFinished, parsed, lastEcho,
                                            writeBuffer>>
    /\ UNCHANGED <<beyond, pending, stream, mode, chunks, peerClosed, evOut,
                   conns, view, call, accepted, taken, serverVars, constructVars, clientVars>>

\* run(), the EPOLLOUT part of an event: the socket takes n bytes of
\* conn.writeBuffer in successful writes; then the buffer is empty, or a
\* write returns -1 with errno e.  On a fd the EPOLLIN part has just closed,
\* connections[fd] makes a new, empty Connection and setEpollEvents fails.
EpollOut ==
    /\ pc = "EPOLLOUT"
    /\ pc' = "epoll_wait"
    /\ evOut' = FALSE
    /\ IF ~isOpen
       THEN /\ errno' = "EBADF"
            /\ UNCHANGED <<writeBuffer, isOpen, ready, armedOut, readyOut>>
       ELSE \E n \in WriteCuts(writeBuffer), e \in WriteErrors :
              LET rest == SubSeq(writeBuffer, n + 1, Len(writeBuffer))
              IN IF rest = <<>>
                 THEN \* emptied: setEpollEvents(fd, EPOLLIN)
                      /\ writeBuffer' = rest
                      /\ armedOut' = FALSE
                      /\ readyOut' = FALSE
                      /\ UNCHANGED <<isOpen, ready, errno>>
                 ELSE IF e = "EAGAIN" \/ EWOULDBLOCK # 0
                 THEN \* bytesWritten == -1 && (errno == EAGAIN || EWOULDBLOCK)
                      /\ writeBuffer' = rest
                      /\ errno' = e
                      /\ UNCHANGED <<isOpen, ready, armedOut, readyOut>>
                 ELSE \* closeConnection(fd); conn is left dangling and
                      \* conn.writeBuffer.empty() reads freed memory
                      /\ closeConnection
                      /\ readyOut' = FALSE
                      /\ errno' \in {e, "EBADF"}
                      /\ UNCHANGED armedOut
    /\ UNCHANGED <<buffer, beyond, message, result, pending, stream, nFinished,
                   parsed, lastEcho, mode, fresh, chunks, sock, peerClosed,
                   conns, view, call, accepted, taken, serverVars, constructVars, clientVars>>

\* run(), an event on the pipe: the acceptor has accepted a new connection
\* under the fd number the worker closed, and the worker takes it.  The
\* Connection is new; the entries of processFixStream's thread_local maps
\* buffers and messages for that fd number are the ones that are there.
NextConnection ==
    /\ pc = "epoll_wait"
    /\ ~isOpen
    /\ conns < MaxConns
    /\ conns' = conns + 1
    /\ stream' \in LaterStreams
    /\ pending' = Flatten(stream')
    /\ sock' = <<>>
    /\ peerClosed' = FALSE
    /\ isOpen' = TRUE
    /\ writeBuffer' = <<>>
    /\ ready' = FALSE
    /\ readyOut' = FALSE
    /\ armedOut' = FALSE
    /\ result' = "NONE"
    /\ nFinished' = 0
    /\ parsed' = <<>>
    /\ lastEcho' = NoEcho
    /\ fresh' = FALSE
    /\ UNCHANGED <<buffer, beyond, message, mode, chunks, pc, errno, evOut,
                   view, call, accepted, taken, serverVars, constructVars, clientVars>>

NextWorker ==
    \/ Arrive
    \/ PeerClose
    \/ Writable
    \/ EpollWaitIn
    \/ EpollWaitOut
    \/ ProcessFixStream
    \/ EpollOut
    \/ NextConnection

SpecWorker == InitWorker /\ [][NextWorker]_vars

RECURSIVE CompleteIn(_, _)
\* how many messages of the list ms lie wholly within its first n bytes
CompleteIn(ms, n) ==
    IF ms = <<>> \/ Len(Bytes(Head(ms))) > n THEN 0
    ELSE 1 + CompleteIn(Tail(ms), n - Len(Bytes(Head(ms))))

\* C6: when the worker is back in epoll_wait after an EPOLLIN event, on a
\* connection that is still open and has no event pending, every message
\* fully received has been parsed and handed to the handler, in order.
\* Stated for streams that fit in the ring.
C6_TurnDrainsCompleteMessages ==
    (pc = "epoll_wait" /\ isOpen /\ ~ready /\ WellFormed(stream)
     /\ Len(Flatten(stream)) <= buffer.capacity_)
    => /\ nFinished = CompleteIn(stream, Arrived)
       /\ \A i \in 1..nFinished : parsed[i] = AtomicFields(stream[i])

\* C7: when parseFixMessage has returned ERROR, the worker has closed the
\* fd and erased the Connection by the end of that turn, and no response
\* bytes are pending for it.
C7_ErrorClosesConnection ==
    (result = "ERROR" /\ pc = "epoll_wait")
    => (~isOpen /\ writeBuffer = <<>>)

\* what the Message holds after the first n messages of the stream, each
\* of their fields stored once and never cleared
Held(n) == Stored(WireFields(Flatten(SubSeq(stream, 1, n))))

\* C20: when the handler is called for a FINISHED message, every slice of
\* the Message still reads the bytes that were parsed for its field: no
\* read into the inbound ring has overwritten them since the field was
\* committed.  Stated for the first message of a connection.
C20_SlicesValidAtHandler ==
    (lastEcho.called /\ nFinished = 1) => lastEcho.fields = Held(1)

\* C29: once parseFixMessage has returned FINISHED and the handler has run,
\* the worker has reset the Message, so the next parseFixMessage call on the
\* connection starts from finished = false, checksum 0 and no fields.
C29_MessageResetAfterFinished ==
    (mode = "worker" /\ result = "FINISHED") => message = NewMessage

\* C26: a connection whose inbound ring has no free space stays open,
\* whatever errno holds from earlier system calls.
C26_FullRingKeepsConnection ==
    (mode = "worker" /\ availableSpace(buffer) = 0) => isOpen

\* C27: after a write to the socket has failed with an error other than
\* EAGAIN/EWOULDBLOCK during the EPOLLOUT handling, the fd is closed and the
\* Connection erased.
C27_WriteErrorCloses ==
    (mode = "worker" /\ errno = "ECONNRESET") => ~isOpen

\* C21: a connection the worker has just taken from its pipe, also under a
\* fd number it closed before, has an empty inbound ring, an empty outbound
\* buffer and a reset Message.
C21_NewConnectionIsFresh ==
    (mode = "worker" /\ isOpen /\ pending = Flatten(stream))
    => /\ dataSize(buffer) = 0
       /\ writeBuffer = <<>>
       /\ message = NewMessage

----------------------------------------------------------------------------
(* SpecWorkerShort: SpecWorker for the peers whose messages are the short  *)
(* Logon and Heartbeat                                                     *)

InitWorkerShort == InitWorker /\ stream \in LaterStreams

SpecWorkerShort == InitWorkerShort /\ [][NextWorker]_vars

\* C30: whenever the worker is back in epoll_wait, EPOLLOUT is in the mask
\* of an open connection exactly when its outbound buffer is not empty.
C30_OutArmedIffPending ==
    (mode = "worker" /\ pc = "epoll_wait" /\ isOpen)
    => (armedOut <=> writeBuffer # <<>>)

\* C30 witness: the EPOLLOUT handling has written all but the last byte of a
\* response, the next write would block, and the worker is back in
\* epoll_wait with EPOLLOUT still armed.
C30_Witness ==
    /\ pc = "epoll_wait"
    /\ isOpen
    /\ armedOut
    /\ Len(writeBuffer) = 1
    /\ errno = "EAGAIN"
    /\ nFinished = 1

----------------------------------------------------------------------------
(* SpecServer: the acceptor TcpServer::run (src/src/tcpserver.h) and the    *)
(* run() loops of its workers (src/src/worker.h), with the traffic of a    *)
(* connection reduced to what an event does to the worker's tables: the    *)
(* EPOLLIN part leaves the connection idle, leaves a response pending or   *)
(* closes it; the EPOLLOUT part empties the outbound buffer or blocks.     *)
(* epoll_wait is taken to return one event at a time.                      *)

\* the connection fds the process has at most at one time
MaxFds == 2
\* the connections the acceptor accepts in the window the model looks at
MaxAccepts == 3

\* std::thread::hardware_concurrency() of the machines considered
WorkerCounts == {1, 2, 7}
WorkerIds == 0..6

\* INT_MIN
IntMin == (0 - IntMax) - 1

\* 2^64 modulo n, from 2^16 by squaring twice
TwoTo64Mod(n) ==
    LET a == 65536 % n
        c == (a * a) % n
    IN (c * c) % n

\* roundRobinIndex++ % workers.size(): the int is converted to size_t for
\* the division, a negative value v to 2^64 + v
workerIndex(v, n) ==
    IF v >= 0 THEN v % n ELSE (TwoTo64Mod(n) + (v % n)) % n

\* roundRobinIndex++ on a std::atomic<int>: the value wraps at INT_MAX
Increment(v) == IF v = IntMax THEN IntMin ELSE v + 1

\* accept() returns the lowest fd number that is not open
LowestFree == CHOOSE f \in 1..MaxFds :
                 f \notin openFds /\ \A g \in 1..(f - 1) : g \in openFds

\* Init: the server is constructed and every worker is in its first
\* epoll_wait.  roundRobinIndex is 0, or, on a server that has accepted and
\* closed INT_MAX - 1 connections before, INT_MAX - 1.
InitServer ==
    /\ nWorkers \in WorkerCounts
    /\ shutdownFlag = FALSE
    /\ roundRobinIndex \in {0, IntMax - 1}
    /\ turn = roundRobinIndex % nWorkers
    /\ handed = <<>>
    /\ pipe = [w \in 0..(nWorkers - 1) |-> <<>>]
    /\ pipeEvent = [w \in 0..(nWorkers - 1) |-> FALSE]
    /\ connections = [w \in 0..(nWorkers - 1) |-> {}]
    /\ registered = [w \in 0..(nWorkers - 1) |-> {}]
    /\ armed = [w \in 0..(nWorkers - 1) |-> {}]
    /\ openFds = {}
    /\ running = [w \in 0..(nWorkers - 1) |-> TRUE]
    /\ buffer = CircularBuffer(1, SOH)
    /\ beyond = SOH
    /\ view = NoCall
    /\ accepted = <<>>
    /\ taken = <<>>
    /\ call = NoOp
    /\ IdleParser
    /\ IdleWorker
    /\ IdleConstruct
    /\ IdleClient

\* TcpServer::run, one accepted connection: accept, pick the worker, write
\* the fd to its pipe; the write succeeds or not
Accept ==
    /\ ~shutdownFlag
    /\ Len(handed) < MaxAccepts
    /\ \E f \in 1..MaxFds : f \notin openFds
    /\ \E ok \in BOOLEAN :
          LET newFd == LowestFree
              index == workerIndex(roundRobinIndex, nWorkers)
          IN /\ roundRobinIndex' = Increment(roundRobinIndex)
             /\ turn' = (turn + 1) % nWorkers
             /\ IF ok
                THEN /\ pipe' = [pipe EXCEPT ![index] = Append(@, newFd)]
                     /\ pipeEvent' = [pipeEvent EXCEPT ![index] = TRUE]
                     /\ openFds' = openFds \cup {newFd}
                ELSE \* close(newFd)
                     UNCHANGED <<pipe, pipeEvent, openFds>>
             /\ handed' = Append(handed,
                   [fd |-> newFd, workerIndex |-> index, turn |-> turn,
                    ok |-> ok,
                    queued |-> \E w \in DOMAIN pipe' : pipe'[w] # pipe[w],
                    open |-> newFd \in openFds'])
    /\ UNCHANGED <<nWorkers, shutdownFlag, connections, registered, armed,
                   running, buffer, beyond, view, call, accepted, taken, parserVars, workerVars, constructVars, clientVars>>

\* the acceptor leaves its loop and ~TcpServer sets shutdownFlag
Shutdown ==
    /\ ~shutdownFlag
    /\ shutdownFlag' = TRUE
    /\ UNCHANGED <<nWorkers, roundRobinIndex, turn, handed, pipe, pipeEvent,
                   connections, registered, armed, openFds, running, buffer,
                   beyond, view, call, accepted, taken, parserVars, workerVars, constructVars, clientVars>>

\* run(), from the end of an event's handling: back to epoll_wait while
\* shutdownFlag is false; else the loop over connections that calls
\* closeConnection for each entry.  closeConnection erases the entry the
\* loop stands on, so how far the loop gets after its first round is not
\* defined: it closes the entries up to some fd m of the table.
\* conn, reg, arm and open are the tables after the event.
EndOfTurn(w, conn, reg, arm, open) ==
    IF ~shutdownFlag
    THEN /\ connections' = [connections EXCEPT ![w] = conn]
         /\ registered' = [registered EXCEPT ![w] = reg]
         /\ armed' = [armed EXCEPT ![w] = arm]
         /\ openFds' = open
         /\ UNCHANGED running
    ELSE /\ running' = [running EXCEPT ![w] = FALSE]
         /\ IF conn = {}
            THEN /\ connections' = [connections EXCEPT ![w] = conn]
                 /\ registered' = [registered EXCEPT ![w] = reg]
                 /\ armed' = [armed EXCEPT ![w] = arm]
                 /\ openFds' = open
            ELSE \E m \in conn :
                   LET closed == {f \in conn : f <= m}
                   IN /\ connections' = [connections EXCEPT ![w] = conn \ closed]
                      /\ registered' = [v \in DOMAIN registered |->
                            (IF v = w THEN reg ELSE registered[v]) \ closed]
                      /\ armed' = [v \in DOMAIN armed |->
                            (IF v = w THEN arm ELSE armed[v]) \ closed]
                      /\ openFds' = open \ closed

\* run(), an event on pipeReadFd: one read of one fd; the fd gets a new
\* Connection and is added to the epoll set with EPOLLIN | EPOLLET
WorkerPipe(w) ==
    /\ running[w]
    /\ pipeEvent[w]
    /\ pipeEvent' = [pipeEvent EXCEPT ![w] = FALSE]
    /\ IF pipe[w] = <<>>
       THEN /\ UNCHANGED pipe
            /\ EndOfTurn(w, connections[w], registered[w], armed[w], openFds)
       ELSE LET newFd == Head(pipe[w])
            IN /\ pipe' = [pipe EXCEPT ![w] = Tail(@)]
               /\ EndOfTurn(w, connections[w] \cup {newFd},
                            registered[w] \cup {newFd}, armed[w] \ {newFd},
                            openFds)
    /\ UNCHANGED <<nWorkers, shutdownFlag, roundRobinIndex, turn, handed,
                   buffer, beyond, view, call, accepted, taken, parserVars, workerVars, constructVars, clientVars>>

\* run(), an event on a connection fd with EPOLLIN (in), EPOLLOUT (out) or
\* both.  The EPOLLIN part ends with the connection idle, with a response
\* pending or with closeConnection(fd); the EPOLLOUT part looks the fd up
\* with connections[fd], which makes an entry when there is none, and
\* writes until the buffer is empty or the write blocks.
WorkerEvent(w) ==
    /\ running[w]
    /\ \E fd \in registered[w], in \in BOOLEAN, out \in BOOLEAN,
          after \in {"idle", "pending", "closed"}, emptied \in BOOLEAN :
          /\ in \/ out
          /\ out => fd \in armed[w]
          /\ ~in => after = "pending"
          /\ LET isClosed == in /\ after = "closed"
                 conn1 == IF isClosed THEN connections[w] \ {fd}
                          ELSE connections[w]
                 reg1 == IF isClosed THEN registered[w] \ {fd}
                         ELSE registered[w]
                 open1 == IF isClosed THEN openFds \ {fd} ELSE openFds
                 arm1 == IF ~in THEN armed[w]
                         ELSE IF after = "pending" THEN armed[w] \cup {fd}
                         ELSE armed[w] \ {fd}
                 conn2 == IF out THEN conn1 \cup {fd} ELSE conn1
                 arm2 == IF out /\ (emptied \/ fd \notin arm1)
                         THEN arm1 \ {fd} ELSE arm1
             IN EndOfTurn(w, conn2, reg1, arm2, open1)
    /\ UNCHANGED <<nWorkers, shutdownFlag, roundRobinIndex, turn, handed, pipe,
                   pipeEvent, buffer, beyond, view, call, accepted, taken, parserVars,
                   workerVars, constructVars, clientVars>>

NextServer ==
    \/ Accept
    \/ Shutdown
    \/ \E w \in DOMAIN running : WorkerPipe(w)
    \/ \E w \in DOMAIN running : WorkerEvent(w)

SpecServer == InitServer /\ [][NextServer]_vars

\* the workers take the events that are pending for them: a thread in
\* epoll_wait returns when an event is there
FairServer ==
    /\ SpecServer
    /\ \A w \in WorkerIds : WF_vars(w \in DOMAIN running /\ WorkerPipe(w))

\* C23: the k-th accepted connection goes to worker k mod n: the index is in
\* 0..n-1, it is the number of connections accepted before modulo n, and it
\* follows the previous connection's index cyclically; a fd whose pipe write
\* failed is closed and in no pipe.
C23_RoundRobin ==
    \A i \in 1..Len(handed) :
        /\ handed[i].workerIndex \in 0..(nWorkers - 1)
        /\ handed[i].workerIndex = handed[i].turn
        /\ i > 1 => handed[i].workerIndex =
                        (handed[i - 1].workerIndex + 1) % nWorkers
        /\ ~handed[i].ok => (~handed[i].queued /\ ~handed[i].open)

\* C24: an open connection fd has an entry in the connections map of at most
\* one worker.
C24_OneOwner ==
    \A f \in openFds :
        Cardinality({w \in DOMAIN connections : f \in connections[w]}) <= 1

\* C33: a worker's connections map holds only fds that are open and in its
\* epoll set; closeConnection(fd) during an event is the last thing the turn
\* does with the fd, and no entry for a closed fd is made or left behind.
C33_TableHoldsOpenRegisteredFds ==
    \A w \in DOMAIN connections :
        connections[w] \subseteq (registered[w] \cap openFds)

\* C22: a fd written to a worker's pipe is eventually read from it by the
\* worker, as long as the server is not shut down.
C22_QueuedFdIsTaken ==
    \A w \in WorkerIds :
        (w \in DOMAIN pipe /\ pipe[w] # <<>>)
        ~> (w \in DOMAIN pipe /\ (pipe[w] = <<>> \/ shutdownFlag))

\* C25: once shutdownFlag is set every worker eventually leaves run().
C25_ShutdownEndsWorkers ==
    shutdownFlag ~> (\A w \in DOMAIN running : ~running[w])

----------------------------------------------------------------------------
(* SpecConstruct: the constructor of TcpServer (src/src/tcpserver.h) fills  *)
(* the vector workers and starts one thread per worker, while the threads  *)
(* that are already started enter WorkerThread::run.  A storage block is   *)
(* a number; when the vector grows its elements are moved to a new block   *)
(* and the old block, with the objects in it, is destroyed and freed.      *)

InitConstruct ==
    /\ nWorkers \in WorkerCounts
    /\ workers = NoWorkers
    /\ workerThreads = <<>>
    /\ shutdownFlag = FALSE
    /\ roundRobinIndex = 0
    /\ turn = 0
    /\ handed = <<>>
    /\ pipe = <<>>
    /\ pipeEvent = <<>>
    /\ connections = <<>>
    /\ registered = <<>>
    /\ armed = <<>>
    /\ openFds = {}
    /\ running = <<>>
    /\ buffer = CircularBuffer(1, SOH)
    /\ beyond = SOH
    /\ view = NoCall
    /\ accepted = <<>>
    /\ taken = <<>>
    /\ call = NoOp
    /\ IdleParser
    /\ IdleWorker
    /\ IdleClient

\* the capacities a std::vector of size n may take when it has to grow: the
\* least one, n + 1, or twice n as libstdc++ and libc++ choose
NewCapacities(n) == IF n = 0 THEN {1} ELSE {n + 1, 2 * n}

\* workers.emplace_back(shutdownFlag) on the vector v: at size = capacity
\* the elements are moved into a new block
emplace_back(v, c) ==
    IF v.size < v.capacity
    THEN [v EXCEPT !.size = @ + 1]
    ELSE [size |-> v.size + 1, capacity |-> c, data |-> v.data + 1]

\* one round of the constructor's loop: emplace_back, the pipe's write end
\* is noted, and thread i is started with [this, i]() { workers[i].run(); }
ConstructWorker ==
    /\ workers.size < nWorkers
    /\ \E c \in NewCapacities(workers.size) :
          workers' = emplace_back(workers, c)
    /\ workerThreads' = [i \in 0..workers.size |->
                            IF i < workers.size THEN workerThreads[i] ELSE 0]
    /\ UNCHANGED <<nWorkers, shutdownFlag, roundRobinIndex, turn, handed, pipe,
                   pipeEvent, connections, registered, armed, openFds, running,
                   buffer, beyond, view, call, accepted, taken, parserVars,
                   workerVars, clientVars>>

\* thread i evaluates workers[i] and calls run() on the object it finds:
\* from here on its this pointer refers to the block the vector has now
ThreadRun(i) ==
    /\ workerThreads[i] = 0
    /\ workerThreads' = [workerThreads EXCEPT ![i] = workers.data]
    /\ UNCHANGED <<workers, serverVars, buffer, beyond, view, call, accepted,
                   taken, parserVars, workerVars, clientVars>>

NextConstruct ==
    \/ ConstructWorker
    \/ \E i \in DOMAIN workerThreads : ThreadRun(i)

SpecConstruct == InitConstruct /\ [][NextConstruct]_vars

\* C34: while the constructor runs with two or more workers, a thread that
\* is in run() works on a WorkerThread whose storage is the vector's
\* storage: the object is not moved, relocated or destroyed under it.
C34_WorkerStorageIsStable ==
    \A i \in DOMAIN workerThreads :
        workerThreads[i] # 0 => workerThreads[i] = workers.data

----------------------------------------------------------------------------
(* SpecClient: a connected TCPClient (src/src/tcpclient.cpp) whose threads  *)
(* have been started by poll().  The thread that uses the client calls     *)
(* asyncSend and stopThreads; the send thread runs sendLoop, the receive   *)
(* thread receiveLoop.                                                     *)

\* the messages the user sends
ClientMessages == {<<65, 66>>, <<67>>}

\* what locking write_mutex_, a std::mutex, can do in the thread that owns
\* it already: the thread blocks for ever, the lock throws
\* std::system_error, which nothing catches, or the lock is taken again
RelockOutcomes == {"blocks", "throws", "relocked"}

\* what write(sock_fd_, ...) can return for a message of n bytes: a count
\* 1..n, or -1 with EAGAIN or with another error
WriteResults(n) ==
    {[ret |-> k, errno |-> "0"] : k \in 1..n}
    \cup {[ret |-> -1, errno |-> e] : e \in WriteErrors}

other == <<buffer, beyond, view, call, accepted, taken, parserVars, workerVars,
           serverVars, constructVars>>

InitClient ==
    /\ write_queue_ = <<>>
    /\ write_mutex_ = "free"
    /\ should_stop_ = FALSE
    /\ connected_ = TRUE
    /\ sendPc = "check"
    /\ recvPc = "loop"
    /\ mainPc = "idle"
    /\ wire = <<>>
    /\ queued = <<>>
    /\ buffer = CircularBuffer(1, SOH)
    /\ beyond = SOH
    /\ view = NoCall
    /\ accepted = <<>>
    /\ taken = <<>>
    /\ call = NoOp
    /\ IdleParser
    /\ IdleWorker
    /\ IdleServer
    /\ IdleConstruct

\* asyncSend(message): under write_mutex_, push_back and EPOLL_CTL_MOD
asyncSend ==
    /\ mainPc = "idle"
    /\ connected_
    /\ Len(queued) < MaxSends
    /\ write_mutex_ = "free"
    /\ \E msg \in ClientMessages :
          /\ write_queue_' = Append(write_queue_, msg)
          /\ queued' = Append(queued, msg)
    /\ UNCHANGED <<write_mutex_, should_stop_, connected_, sendPc, recvPc,
                   mainPc, wire, other>>

\* stopThreads(), up to the joins: should_stop_ = true
stopThreads ==
    /\ mainPc = "idle"
    /\ should_stop_' = TRUE
    /\ mainPc' = "join"
    /\ UNCHANGED <<write_queue_, write_mutex_, connected_, sendPc, recvPc,
                   wire, queued, other>>

\* stopThreads(), receive_thread_.join() and send_thread_.join() return
JoinThreads ==
    /\ mainPc = "join"
    /\ recvPc = "done"
    /\ sendPc = "done"
    /\ mainPc' = "stopped"
    /\ UNCHANGED <<write_queue_, write_mutex_, should_stop_, connected_,
                   sendPc, recvPc, wire, queued, other>>

\* receiveLoop: should_stop_ is set and the loop ends
ReceiveStop ==
    /\ recvPc = "loop"
    /\ should_stop_
    /\ recvPc' = "done"
    /\ UNCHANGED <<write_queue_, write_mutex_, should_stop_, connected_,
                   sendPc, mainPc, wire, queued, other>>

\* receiveLoop: doRead finds the connection closed or broken and disconnects
ReceiveDisconnect ==
    /\ recvPc = "loop"
    /\ ~should_stop_
    /\ connected_
    /\ connected_' = FALSE
    /\ UNCHANGED <<write_queue_, write_mutex_, should_stop_, sendPc, recvPc,
                   mainPc, wire, queued, other>>

\* sendLoop: the test of should_stop_ at the head of the loop
SendCheck ==
    /\ sendPc = "check"
    /\ sendPc' = IF should_stop_ THEN "done" ELSE "lock"
    /\ UNCHANGED <<write_queue_, write_mutex_, should_stop_, connected_,
                   recvPc, mainPc, wire, queued, other>>

\* sendLoop: write_mutex_ is locked; doWrite() is called with the mutex held
\* when the queue is not empty, else the mutex is released and the thread
\* sleeps
SendLock ==
    /\ sendPc = "lock"
    /\ write_mutex_ = "free"
    /\ IF write_queue_ # <<>>
       THEN /\ write_mutex_' = "send"
            /\ sendPc' = "doWrite"
       ELSE /\ sendPc' = "check"
            /\ UNCHANGED write_mutex_
    /\ UNCHANGED <<write_queue_, should_stop_, connected_, recvPc, mainPc,
                   wire, queued, other>>

\* doWrite(), its lock_guard on write_mutex_: the send thread owns the mutex
\* already, and what the second lock does is not defined
doWriteLock ==
    /\ sendPc = "doWrite"
    /\ \E outcome \in RelockOutcomes :
          /\ sendPc' = CASE outcome = "blocks" -> "blocked"
                          [] outcome = "throws" -> "terminated"
                          [] OTHER -> "write"
          /\ recvPc' = IF outcome = "throws" THEN "terminated" ELSE recvPc
          /\ mainPc' = IF outcome = "throws" THEN "terminated" ELSE mainPc
    /\ UNCHANGED <<write_queue_, write_mutex_, should_stop_, connected_, wire,
                   queued, other>>

\* doWrite(), one round of while (!write_queue_.empty()) and, when the loop
\* ends, the rest of doWrite and of the round of sendLoop: the lock_guards
\* release the mutex
doWrite ==
    /\ sendPc = "write"
    /\ IF write_queue_ = <<>>
       THEN \* EPOLLOUT is taken out of the event mask
            /\ write_mutex_' = "free"
            /\ sendPc' = "check"
            /\ UNCHANGED <<write_queue_, connected_, wire>>
       ELSE LET front == Head(write_queue_)
            IN \E w \in WriteResults(Len(front)) :
                  /\ ~connected_ => w.errno = "ECONNRESET"
                  /\ IF w.ret > 0
                     THEN \* bytes > 0: pop_front
                          /\ wire' = wire \o SubSeq(front, 1, w.ret)
                          /\ write_queue_' = Tail(write_queue_)
                          /\ UNCHANGED <<write_mutex_, sendPc, connected_>>
                     ELSE \* break, after disconnect() unless EAGAIN
                          /\ connected_' = (connected_ /\ w.errno = "EAGAIN")
                          /\ write_mutex_' = "free"
                          /\ sendPc' = "check"
                          /\ UNCHANGED <<write_queue_, wire>>
    /\ UNCHANGED <<should_stop_, recvPc, mainPc, queued, other>>

NextClient ==
    \/ asyncSend
    \/ stopThreads
    \/ JoinThreads
    \/ ReceiveStop
    \/ ReceiveDisconnect
    \/ SendCheck
    \/ SendLock
    \/ doWriteLock
    \/ doWrite

SpecClient == InitClient /\ [][NextClient]_vars

\* every thread that can take a step takes it in the end
FairClient ==
    /\ SpecClient
    /\ WF_vars(JoinThreads)
    /\ WF_vars(ReceiveStop)
    /\ WF_vars(SendCheck)
    /\ WF_vars(SendLock)
    /\ WF_vars(doWriteLock)
    /\ WF_vars(doWrite)

RECURSIVE Concat(_)
Concat(ms) == IF ms = <<>> THEN <<>> ELSE Head(ms) \o Concat(Tail(ms))

\* C35: on a client that stays connected and is not stopped, every message
\* asyncSend has queued is handed to the socket in full and in queue order
\* in the end; the send thread does not block for ever on write_mutex_, so
\* stopThreads() returns.
C35_QueuedIsSentAndStopReturns ==
    /\ \A n \in 1..MaxSends :
          (Len(queued) >= n)
          ~> (\/ Len(queued) >= n /\ IsPrefix(Concat(SubSeq(queued, 1, n)), wire)
              \/ ~connected_
              \/ should_stop_)
    /\ (mainPc = "join") ~> (mainPc = "stopped")

====
